---- MODULE Spec2Model ----
(***************************************************************************)
(* Model of the fileops plugin: `file import` (src/commands/file/import.ts) *)
(* and `file export` (src/commands/file/export.ts).                         *)
(*                                                                          *)
(* The specifications share the variables below:                            *)
(*   Spec        one run of FileImport.run, or one run of FileExport.run    *)
(*               and a second one over the directory the first has left     *)
(*   SpecBatch   one call of FileImport.createBatches, on short manifests   *)
(*               and on manifests long enough to reach MAX_SUBREQUESTS      *)
(*   SpecName    the destination name FileExport.processRow gives one row   *)
(*   SpecFair    Spec, every step taken that stays possible, except that    *)
(*               the remote end may leave an upload unanswered              *)
(*   SpecFairSettling   Spec, every step taken that stays possible          *)
(*   SpecRecord  the records and the form FileImport.processBatch builds    *)
(*               from one batch of rows with extra columns                  *)
(*   SpecTwin    Spec for an export whose manifest repeats an id            *)
(***************************************************************************)
EXTENDS Integers, Sequences, FiniteSets, TLC

\* ------------------------------------------------------------------ bounds
\* most data rows an import manifest holds in Spec
MaxRows == 2
\* most data rows an export manifest holds in Spec
MaxExportRows == 3
\* most data rows a manifest holds in SpecBatch when probes complete in any order
MaxBatchRows == 4
\* largest value of the --concurrency flag explored (the flag allows 1..12)
MaxConc == 2
\* largest value of the --batch-size flag explored (the flag allows 1..40)
MaxBatchFlag == 2
\* rows beyond MAX_SUBREQUESTS in the long manifests of SpecBatch
MaxExtra == 3
\* most characters an extension hint holds in SpecName
MaxHintLen == 3
\* most pieces the name of an extra column holds in SpecRecord
MaxKeyLen == 5
\* most rows the batch of SpecRecord holds
MaxRecordRows == 2

\* ------------------------------------------------------- program constants
MAX_SUBREQUESTS == 190
\* 1024 * 1024, the factor of batchSizeBytes
BytesPerMB == 1048576

\* absent values (undefined in the source), one per kind of value
NoPath == <<>>
NoError == [kind |-> "none"]
NoResult == [kind |-> "none"]
NoFile == [exists |-> FALSE, size |-> 0]
File(n) == [exists |-> TRUE, size |-> n]

\* sizes fs.stat may report for a referenced binary: a file a little over
\* half a megabyte and one a little over one megabyte
FileSizes == {(BytesPerMB \div 2) + 1, BytesPerMB + 1}

VARIABLES
    cmd,               \* what runs: "import" | "export" | "batch" (createBatches alone) | "name" | "record"
    pc,                \* run state: Idle, Reading, Batching, Auth, Transferring, Writing, Settling,
                       \* Done, Failed, Hung, Crashed (Resolved, Rejected, Named in the small specs)
    runError,          \* the error the run promise rejected with, or NoError
    result,            \* the value the run promise resolved with, or NoResult
    rows,              \* rows delivered by the 'data' events so far
    batchSizeBytes,    \* flags['batch-size'] * 1024 * 1024
    concurrency,       \* flags.concurrency
    order,             \* the probe completion orders explored: "any", "asc" or "desc"
    pending,           \* createBatches: row indices whose fs.stat has not completed
    disk,              \* row index -> the row's binary on disk: File(size) or NoFile
    currentBatch,      \* createBatches: local currentBatch
    currentBatchSize,  \* createBatches: local currentBatchSize
    currentBatchFiles, \* createBatches: local currentBatchFiles
    batches,           \* createBatches: local batches; after Batching the run's batches
    cbError,           \* createBatches: the rejection of Promise.all, or NoError
    authRefreshed,     \* targetOrg.refreshAuth() has been called
    queue,             \* p-limit: unit ids waiting, in submission order
    activeCount,       \* p-limit: activeCount
    kicks,             \* p-limit: enqueue's pending "start if a slot is free" microtasks
    unit,              \* unit id -> [st, out, res, ...] of each submitted TransferUnit
    requests,          \* remote transfer requests issued so far (axios.post / axios.get)
    errLog,            \* import: this.errLog; export: this.errorLog
    totalProcessed,    \* import: this.totalProcessed; export: downloadCount
    successCount,      \* export: successCount
    failureCount,      \* export: failureCount
    ledgerWritten,     \* writeFailuresToCsv has written the ledger file
    idFieldName,       \* export: flags.id, the name of the id column
    extColName,        \* export: flags['ext-col-name'] ?? ''
    outDir,            \* export: names of the files in the output directory
    sinksOpened,       \* export: calls of fs.createWriteStream so far
    previous,          \* export: the run made before this one over outDir, or NoRun
    progress,          \* this.progress: what has been called on the progress bar
    handles,           \* export: unit id -> the response stream and the writer processRow holds
    manifestIds        \* export: "distinct" ids in the manifest, or the first id "repeated"

vars == <<cmd, pc, runError, result, rows, batchSizeBytes, concurrency, order,
          disk, pending, currentBatch, currentBatchSize, currentBatchFiles,
          batches, cbError, authRefreshed, queue, activeCount, kicks, unit,
          requests, errLog, totalProcessed, successCount, failureCount,
          ledgerWritten, idFieldName, extColName, outDir, sinksOpened, previous,
          progress, handles, manifestIds>>

batchVars == <<pending, currentBatch, currentBatchSize,
               currentBatchFiles, batches, cbError>>
limiterVars == <<queue, activeCount, kicks, unit, requests>>
ledgerVars == <<errLog, totalProcessed, successCount, failureCount, ledgerWritten>>
flagVars == <<cmd, batchSizeBytes, concurrency, order, disk, manifestIds>>
exportVars == <<idFieldName, extColName, outDir, sinksOpened, previous>>

\* ----------------------------------------------------------------- helpers
RECURSIVE SumSeq(_)
SumSeq(s) ==
    IF s = <<>> THEN 0
    ELSE IF Len(s) = 1 THEN s[1]
    ELSE LET half == Len(s) \div 2
         IN  SumSeq(SubSeq(s, 1, half)) + SumSeq(SubSeq(s, half + 1, Len(s)))

RECURSIVE Flatten(_)
Flatten(ss) == IF ss = <<>> THEN <<>> ELSE Head(ss) \o Flatten(Tail(ss))

Range(s) == {s[i] : i \in DOMAIN s}

\* ------------------------------------------------------------ import rows
\* type CSVRow: Title and VersionData name the row; PathOnClient is absent
\* when the manifest's line has no such cell
CSVRow(i, hasPath) ==
    [Title |-> <<"title", i>>,
     VersionData |-> <<"file", i>>,
     PathOnClient |-> IF hasPath THEN <<"path", i>> ELSE NoPath]

\* ------------------------------------------------------------ export rows
\* A string of an export manifest is the sequence of its characters; the
\* empty string and an absent cell are both NoPath (both are falsy where the
\* source tests them). The manifests have the columns Id, CvId and Ext.
Digits == <<"1", "2", "3", "4", "5", "6", "7", "8", "9">>

\* the extension hints of the rows of a run: 'p', 'r.p', none, 'r.'
RunHints == << <<"p">>, <<"r", ".", "p">>, <<>>, <<"r", ".">> >>
HintOf(i) == RunHints[((i - 1) % Len(RunHints)) + 1]

\* row i of the manifest: the cell of the configured id column is there or
\* empty, the cell of the other id column is there
ExportRow(i, hasId) ==
    [Id |-> IF hasId \/ idFieldName # "Id" THEN <<"I", Digits[i]>> ELSE NoPath,
     CvId |-> IF hasId \/ idFieldName # "CvId" THEN <<"V", Digits[i]>> ELSE NoPath,
     Ext |-> HintOf(i)]

\* the row whose cells the i-th data row of the manifest has: its own, or
\* in a manifest that repeats its first id the second row has the cells of
\* the first
RowNumber(i) == IF manifestIds = "repeated" /\ i = 2 THEN 1 ELSE i

\* row[name]: undefined when the manifest has no such column
Cell(row, name) == IF name \in DOMAIN row THEN row[name] ELSE NoPath

\* ContentVersionId that reads the default column whatever --id says
ContentVersionIdDefault(row) == Cell(row, "Id")

\* line 238: const contentVersionId = row[this.idFieldName]
ContentVersionId(row) == Cell(row, idFieldName)

\* LastPiece that takes what follows the first dot
LastPieceAfterFirstDot(h) ==
    LET k == CHOOSE k \in DOMAIN h :
                 h[k] = "." /\ \A j \in DOMAIN h : h[j] = "." => j >= k
    IN SubSeq(h, k + 1, Len(h))

\* line 246: ext.split('.').pop(), for an ext that includes a dot
LastPiece(h) ==
    LET k == CHOOSE k \in DOMAIN h :
                 h[k] = "." /\ \A j \in DOMAIN h : h[j] = "." => j <= k
    IN SubSeq(h, k + 1, Len(h))

\* lines 244-247: the extension of a row's destination
Extension(row) ==
    LET ext == IF extColName # "" THEN Cell(row, extColName) ELSE NoPath IN
    IF ext # NoPath /\ "." \in Range(ext) THEN LastPiece(ext) ELSE ext

\* line 263: fileName = ext ? `${contentVersionId}.${ext}` : contentVersionId
FileName(row) ==
    LET ext == Extension(row) IN
    IF ext # NoPath THEN ContentVersionId(row) \o <<".">> \o ext
    ELSE ContentVersionId(row)

\* line 251: the path of fileUrl that changes with the row
FileUrl(row) == <<"ContentVersion">> \o ContentVersionId(row) \o <<"VersionData">>

\* OpenSink that refuses a name that exists (flags 'wx')
OpenSinkExclusive(dir, name) == [ok |-> name \notin dir, dir |-> dir \cup {name}]

\* line 265: fs.createWriteStream(outputFilePath) opens with flags 'w': the
\* file is created, or truncated when it exists
OpenSink(dir, name) == [ok |-> TRUE, dir |-> dir \cup {name}]

\* no run was made before this one
NoRun == [rows |-> 0, dir |-> {}]

\* a row of the manifest as csv-parser delivers it: the VersionData cell may
\* be empty as well
ImportRow(i, hasData, hasPath) ==
    [CSVRow(i, hasPath) EXCEPT !.VersionData = IF hasData THEN @ ELSE NoPath]

\* ---------------------------------------------------------------- progress
\* the progress bar of the command (this.progress), as far as the order of
\* the calls made on it goes:
\*   started   progress.start has been called (import.ts 177, export.ts 162)
\*   finished  progress.finish has been called
\*   early     progress.update has been called before progress.start
\*   late      progress.update has been called after progress.finish
NewProgress == [started |-> FALSE, finished |-> FALSE, early |-> FALSE, late |-> FALSE]
ProgressStart(p) == [p EXCEPT !.started = TRUE]
ProgressFinish(p) == [p EXCEPT !.finished = TRUE]
\* n calls of progress.update in a row (import.ts 302 and 314, export.ts 150)
ProgressUpdate(p, n) ==
    IF n = 0 THEN p
    ELSE [p EXCEPT !.early = @ \/ ~p.started, !.late = @ \/ p.finished]

\* ----------------------------------------------------------- createBatches
\* the body of the rows.map callback after `await fs.stat`, for row r whose
\* stat reported fileSize: close the current batch when the row does not fit
\* or the batch is full, then add the row
\* CloseNeeded with the size test looking at the batch alone
CloseNeededIgnoringRow(fileSize) ==
    \/ currentBatchSize > batchSizeBytes
    \/ currentBatchFiles >= MAX_SUBREQUESTS

\* CloseNeeded with the count test off by one
CloseNeededOffByOne(fileSize) ==
    \/ fileSize + currentBatchSize > batchSizeBytes
    \/ currentBatchFiles > MAX_SUBREQUESTS

\* CloseNeeded with the count test one record early
CloseNeededOneEarly(fileSize) ==
    \/ fileSize + currentBatchSize > batchSizeBytes
    \/ currentBatchFiles >= MAX_SUBREQUESTS - 1

CloseNeeded(fileSize) ==
    \/ fileSize + currentBatchSize > batchSizeBytes
    \/ currentBatchFiles >= MAX_SUBREQUESTS

\* AddRow that resets the current batch without emitting it
AddRowDroppingBatch(r, fileSize) ==
    LET close == CloseNeeded(fileSize) IN
    /\ batches' = batches
    /\ currentBatch' = Append(IF close THEN <<>> ELSE currentBatch, r)
    /\ currentBatchSize' = (IF close THEN 0 ELSE currentBatchSize) + fileSize
    /\ currentBatchFiles' = (IF close THEN 0 ELSE currentBatchFiles) + 1

\* AddRow that opens a new batch with its byte count at zero
AddRowForgettingSize(r, fileSize) ==
    LET close == CloseNeeded(fileSize) IN
    /\ batches' = IF close THEN Append(batches, currentBatch) ELSE batches
    /\ currentBatch' = Append(IF close THEN <<>> ELSE currentBatch, r)
    /\ currentBatchSize' = IF close THEN 0 ELSE currentBatchSize + fileSize
    /\ currentBatchFiles' = (IF close THEN 0 ELSE currentBatchFiles) + 1

AddRow(r, fileSize) ==
    LET close == CloseNeeded(fileSize) IN
    /\ batches' = IF close THEN Append(batches, currentBatch) ELSE batches
    /\ currentBatch' = Append(IF close THEN <<>> ELSE currentBatch, r)
    /\ currentBatchSize' = (IF close THEN 0 ELSE currentBatchSize) + fileSize
    /\ currentBatchFiles' = (IF close THEN 0 ELSE currentBatchFiles) + 1

\* which probes may complete next: any outstanding one, or (long manifests
\* of SpecBatch) only the first or only the last outstanding one, so that
\* the outstanding probes are always rows k..n or rows 1..k
Completing ==
    IF order = "any" THEN pending
    ELSE IF pending = {} THEN {}
    ELSE IF order = "asc" THEN {Len(rows) - Cardinality(pending) + 1}
    ELSE {Cardinality(pending)}

\* fs.stat of row i succeeds: the callback's try block runs to its end.
\* Probes still outstanding when Promise.all has already rejected complete
\* all the same; they only change locals nobody reads any more.
ProbeOk ==
    /\ pc \in {"Batching", "Failed", "Rejected"}
    /\ \E i \in Completing :
        /\ disk[i].exists
        /\ pending' = pending \ {i}
        /\ AddRow(rows[i], disk[i].size)
    /\ UNCHANGED <<cbError, pc, runError, result, rows, flagVars, progress, exportVars, handles, authRefreshed,
                   limiterVars, ledgerVars>>

\* fs.stat of row i fails: the callback's catch rethrows, naming
\* row.VersionData; Promise.all rejects with the first such error
ProbeFail ==
    /\ pc \in {"Batching", "Failed", "Rejected"}
    /\ \E i \in Completing :
        /\ ~disk[i].exists
        /\ pending' = pending \ {i}
        /\ cbError' = IF cbError = NoError
                      THEN [kind |-> "Error processing file", file |-> rows[i].VersionData]
                      ELSE cbError
    /\ UNCHANGED <<currentBatch, currentBatchSize, currentBatchFiles,
                   batches, pc, runError, result, rows, flagVars, progress, exportVars, handles, authRefreshed,
                   limiterVars, ledgerVars>>

\* createBatches resolves once every probe has succeeded: the trailing
\* non-empty batch is emitted and run() goes on to progress.start and
\* `await this.targetOrg.refreshAuth()`
\* Emitted that emits the trailing batch even when it is empty
EmittedAlways == Append(batches, currentBatch)

Emitted == IF Len(currentBatch) > 0 THEN Append(batches, currentBatch) ELSE batches

\* BatchingDone that goes on although a probe has failed
BatchingDoneDespiteError ==
    /\ cmd = "import"
    /\ pc = "Batching"
    /\ pending = {}
    /\ batches' = Emitted
    /\ pc' = "Auth"
    /\ authRefreshed' = TRUE
    /\ progress' = ProgressStart(progress)
    /\ UNCHANGED <<pending, currentBatch, currentBatchSize, currentBatchFiles,
                   cbError, runError, result, rows, flagVars, exportVars, handles, limiterVars, ledgerVars>>

BatchingDone ==
    /\ cmd = "import"
    /\ pc = "Batching"
    /\ pending = {}
    /\ cbError = NoError
    /\ batches' = Emitted
    /\ pc' = "Auth"
    /\ authRefreshed' = TRUE
    /\ progress' = ProgressStart(progress)
    /\ UNCHANGED <<pending, currentBatch, currentBatchSize, currentBatchFiles,
                   cbError, runError, result, rows, flagVars, exportVars, handles, limiterVars, ledgerVars>>

\* createBatches rejects: run()'s catch calls progress.finish and rethrows
BatchingFailed ==
    /\ cmd = "import"
    /\ pc = "Batching"
    /\ cbError # NoError
    /\ pc' = "Failed"
    /\ runError' = cbError
    /\ progress' = ProgressFinish(progress)
    /\ UNCHANGED <<batchVars, result, rows, flagVars, exportVars, handles, authRefreshed,
                   limiterVars, ledgerVars>>

\* ---------------------------------------------------------------- p-limit
\* A TransferUnit as the limiter and the run see it.
\*   st    "queued" | "running" | "settled"
\*   phase where a running unit is suspended
\*   out   "none" | "fulfilled" | "rejected": how the unit's promise settled
\*   res   the value it fulfilled with
\*   reply what the remote end answered (import: the reply to axios.post;
\*         export: the error the row failed with), kept for the record
NoReply == [kind |-> "none"]
QueuedUnit == [st |-> "queued", phase |-> "none", out |-> "none", res |-> NoResult,
               reply |-> NoReply, url |-> NoPath]

\* import: the synchronous head of processBatch (lines 214-261), run when the
\* limiter calls fn. getContentTypeFromFileName(PathOnClient) calls
\* path.extname, which throws a TypeError on undefined: the unit then rejects
\* without entering its try block. Otherwise the request is built and posted.
BatchThrows(batch) == \E k \in DOMAIN batch : batch[k].PathOnClient = NoPath

\* export: the head of the limited function: processRow is called and is
\* suspended either in its rejection (no id) or in axios.get
StartPhase(u) ==
    IF cmd = "import"
    THEN IF BatchThrows(batches[u]) THEN "threw" ELSE "posting"
    ELSE IF ContentVersionId(rows[u]) = NoPath THEN "noid" ELSE "fetching"

IssuesRequest(phase) == phase \in {"posting", "fetching"}

\* where the request of unit u goes: import.ts line 277, export.ts line 251
CompositeUrl == <<"composite", "sobjects">>
RequestUrl(u) == IF cmd = "import" THEN CompositeUrl ELSE FileUrl(rows[u])

\* Dequeue taking the unit submitted last
DequeueNewest(lim) ==
    LET u == lim.queue[Len(lim.queue)]
        ph == StartPhase(u) IN
    [queue |-> SubSeq(lim.queue, 1, Len(lim.queue) - 1),
     activeCount |-> lim.activeCount + 1,
     unit |-> [lim.unit EXCEPT ![u] =
                 [@ EXCEPT !.st = "running", !.phase = ph,
                           !.url = IF IssuesRequest(ph) THEN RequestUrl(u) ELSE NoPath]],
     requests |-> lim.requests + (IF IssuesRequest(ph) THEN 1 ELSE 0)]

\* p-limit's queue.dequeue()(): run(fn) increments activeCount and calls fn
Dequeue(lim) ==
    LET u == Head(lim.queue)
        ph == StartPhase(u) IN
    [queue |-> Tail(lim.queue),
     activeCount |-> lim.activeCount + 1,
     unit |-> [lim.unit EXCEPT ![u] =
                 [@ EXCEPT !.st = "running", !.phase = ph,
                           !.url = IF IssuesRequest(ph) THEN RequestUrl(u) ELSE NoPath]],
     requests |-> lim.requests + (IF IssuesRequest(ph) THEN 1 ELSE 0)]

Limiter == [queue |-> queue, activeCount |-> activeCount, unit |-> unit,
            requests |-> requests]

\* LimiterNext that frees the slot and starts no waiting unit
LimiterNextIdle(u, out, res, reply) ==
    LET freed == [Limiter EXCEPT
                    !.activeCount = @ - 1,
                    !.unit = [@ EXCEPT ![u] = [@ EXCEPT !.st = "settled",
                                                        !.phase = "none",
                                                        !.out = out,
                                                        !.res = res,
                                                        !.reply = reply]]] IN
    /\ queue' = freed.queue
    /\ activeCount' = freed.activeCount
    /\ unit' = freed.unit
    /\ requests' = freed.requests

\* p-limit's next(), called when unit u's promise has settled with out/res
LimiterNext(u, out, res, reply) ==
    LET freed == [Limiter EXCEPT
                    !.activeCount = @ - 1,
                    !.unit = [@ EXCEPT ![u] = [@ EXCEPT !.st = "settled",
                                                        !.phase = "none",
                                                        !.out = out,
                                                        !.res = res,
                                                        !.reply = reply]]]
        after == IF freed.queue # <<>> THEN Dequeue(freed) ELSE freed IN
    /\ queue' = after.queue
    /\ activeCount' = after.activeCount
    /\ unit' = after.unit
    /\ requests' = after.requests

\* KickStarts without the test of the free slot
KickStartsAlways == queue # <<>>

\* enqueue's microtask: `if (activeCount < concurrency && queue.size > 0)`
KickStarts == activeCount < concurrency /\ queue # <<>>

Kick ==
    /\ kicks > 0
    /\ kicks' = kicks - 1
    /\ LET after == IF KickStarts THEN Dequeue(Limiter) ELSE Limiter IN
        /\ queue' = after.queue
        /\ activeCount' = after.activeCount
        /\ unit' = after.unit
        /\ requests' = after.requests
    /\ UNCHANGED <<pc, runError, result, rows, flagVars, progress, exportVars, handles, batchVars, authRefreshed,
                   ledgerVars>>

\* ------------------------------------------------------------ processBatch
\* what the composite endpoint may answer for one record
ErrBad == [message |-> "bad", statusCode |-> "400", fields |-> <<"Title", "OwnerId">>]
ErrDup == [message |-> "duplicate", statusCode |-> "409", fields |-> <<>>]
OkResult == [success |-> TRUE, id |-> "1", errors |-> <<>>]
FailBad == [success |-> FALSE, id |-> "", errors |-> <<ErrBad, ErrDup>>]
FailNoErrors == [success |-> FALSE, id |-> "", errors |-> <<>>]
ResultKinds == {OkResult, FailBad, FailNoErrors}

\* response.data for a batch of n records: aligned with the batch, one
\* result short, or one result long (whatever the extra result says, reading
\* batch[index] for it throws, so one extra result stands for all)
Responses(n) ==
    UNION {[1..m -> ResultKinds] : m \in {k \in {n - 1, n} : k >= 0}}
    \cup {a \o <<OkResult>> : a \in [1..n -> ResultKinds]}

\* errors that reach processBatch's catch: axios errors without and with a
\* response, and the TypeError thrown while the response is read
NoText == "<undefined>"
NetworkError == [message |-> "Network Error", statusText |-> NoText]
HttpError == [message |-> "Request failed with status code 500", statusText |-> "Server Error"]
TypeErr == [message |-> "TypeError", statusText |-> NoText]
TransportErrors == {NetworkError, HttpError}

\* Array.prototype.join('|') on the fields of a composite error; a string is
\* modelled as the sequence of its pieces
RECURSIVE Join(_)
Join(fields) ==
    IF fields = <<>> THEN <<>>
    ELSE IF Len(fields) = 1 THEN <<fields[1]>>
    ELSE <<fields[1], "|">> \o Join(Tail(fields))

\* FailureEntry with the message where the status code belongs
FailureEntryWrongStatus(row, compErr) ==
    [success |-> FALSE,
     title |-> row.Title,
     versionData |-> row.VersionData,
     error |-> compErr.message,
     statusText |-> compErr.message,
     fields |-> Join(compErr.fields)]

\* lines 292-300: the ledger entry of a result with success = false
FailureEntry(row, compErr) ==
    [success |-> FALSE,
     title |-> row.Title,
     versionData |-> row.VersionData,
     error |-> compErr.message,
     statusText |-> compErr.statusCode,
     fields |-> Join(compErr.fields)]

\* lines 305-315: the ledger entry the catch block writes for one row
CatchEntry(row, axErr) ==
    [success |-> FALSE,
     title |-> row.Title,
     versionData |-> row.VersionData,
     error |-> axErr.message,
     statusText |-> axErr.statusText]

\* CatchEntries that logs the first row of the batch only
CatchEntriesFirstOnly(batch, axErr) ==
    [k \in DOMAIN batch \cap {1} |-> CatchEntry(batch[k], axErr)]

CatchEntries(batch, axErr) == [k \in DOMAIN batch |-> CatchEntry(batch[k], axErr)]

\* lines 288-303: response.data.forEach from index k on. acc.log are the
\* ledger entries pushed, acc.success the length of results, acc.processed
\* the increments of totalProcessed, acc.threw whether the callback threw
\* (batch[index] undefined, or errors[0] undefined)
RECURSIVE ForEachResult(_, _, _, _)
ForEachResult(batch, data, k, acc) ==
    IF k > Len(data) THEN acc
    ELSE IF k > Len(batch) THEN [acc EXCEPT !.threw = TRUE]
    ELSE IF data[k].success
    THEN ForEachResult(batch, data, k + 1,
             [acc EXCEPT !.success = @ + 1, !.processed = @ + 1])
    ELSE IF data[k].errors = <<>> THEN [acc EXCEPT !.threw = TRUE]
    ELSE ForEachResult(batch, data, k + 1,
             [acc EXCEPT !.log = Append(@, FailureEntry(batch[k], data[k].errors[1])),
                         !.processed = @ + 1])

NoneProcessed == [log |-> <<>>, success |-> 0, processed |-> 0, threw |-> FALSE]

\* Caught that logs the rows of the batch last to first
CaughtLastFirst(batch, axErr, done) ==
    [done EXCEPT !.log = @ \o [k \in DOMAIN batch |->
                                 CatchEntry(batch[Len(batch) + 1 - k], axErr)],
                 !.processed = @ + Len(batch)]

\* Caught that counts the batch as one record
CaughtCountingOnce(batch, axErr, done) ==
    [done EXCEPT !.log = @ \o CatchEntries(batch, axErr),
                 !.processed = @ + 1]

\* lines 304-316: the catch block, after `done` was done in the try block
Caught(batch, axErr, done) ==
    [done EXCEPT !.log = @ \o CatchEntries(batch, axErr),
                 !.processed = @ + Len(batch)]

\* lines 276-321: processBatch from the settling of axios.post to its return
ProcessReply(batch, reply) ==
    IF reply.kind = "error" THEN Caught(batch, reply.error, NoneProcessed)
    ELSE LET done == ForEachResult(batch, reply.data, 1, NoneProcessed) IN
         IF done.threw THEN Caught(batch, TypeErr, done) ELSE done

\* lines 318-321
BatchResult(batch, done) == [total |-> Len(batch), success |-> done.success]

Replies(n) ==
    {[kind |-> "error", error |-> e, data |-> <<>>] : e \in TransportErrors}
    \cup {[kind |-> "response", error |-> NoError, data |-> d] : d \in Responses(n)}

\* axios.post of unit u settles and processBatch runs to its return; the
\* limiter then frees the slot
BatchReply ==
    /\ cmd = "import"
    /\ \E u \in DOMAIN unit :
        /\ unit[u].st = "running"
        /\ unit[u].phase = "posting"
        /\ \E reply \in Replies(Len(batches[u])) :
            LET done == ProcessReply(batches[u], reply) IN
            /\ errLog' = errLog \o done.log
            /\ totalProcessed' = totalProcessed + done.processed
            /\ progress' = ProgressUpdate(progress, done.processed)
            /\ LimiterNext(u, "fulfilled", BatchResult(batches[u], done), reply)
    /\ UNCHANGED <<kicks, pc, runError, result, rows, flagVars, exportVars, handles, batchVars,
                   authRefreshed, successCount, failureCount, ledgerWritten>>

\* a unit whose processBatch threw before its try block: the limiter's
\* `await result` sees the rejection and frees the slot
BatchThrew ==
    /\ cmd = "import"
    /\ \E u \in DOMAIN unit :
        /\ unit[u].st = "running"
        /\ unit[u].phase = "threw"
        /\ LimiterNext(u, "rejected", NoResult, NoReply)
    /\ UNCHANGED <<kicks, pc, runError, result, rows, flagVars, progress, exportVars, handles, batchVars,
                   authRefreshed, ledgerVars>>

\* ------------------------------------------------------------- import run
\* what the disk may hold at a row's VersionData path
DiskStates == {File(n) : n \in FileSizes} \cup {NoFile}

\* lines 157-169: the flags are parsed and the manifest's stream is created
ImportStart ==
    /\ cmd = "import"
    /\ pc = "Idle"
    /\ pc' = "Reading"
    /\ UNCHANGED <<runError, result, rows, flagVars, progress, exportVars, handles, batchVars, authRefreshed,
                   limiterVars, ledgerVars>>

\* lines 167-174, 'data': rows.push(row). No file is found at the path of a
\* row whose VersionData cell is empty: fs.stat fails on it.
ImportData ==
    /\ cmd = "import"
    /\ pc = "Reading"
    /\ Len(rows) < MaxRows
    /\ \E hasData \in BOOLEAN, hasPath \in BOOLEAN, d \in DiskStates :
        /\ hasData \/ d = NoFile
        /\ rows' = Append(rows, ImportRow(Len(rows) + 1, hasData, hasPath))
        /\ disk' = Append(disk, d)
    /\ UNCHANGED <<progress, manifestIds, cmd, batchSizeBytes, concurrency, order, pc, runError, result,
                   batchVars, authRefreshed, limiterVars, ledgerVars, exportVars, handles>>

\* 'end': the promise resolves and createBatches starts one fs.stat per row
ImportEnd ==
    /\ cmd = "import"
    /\ pc = "Reading"
    /\ pc' = "Batching"
    /\ pending' = DOMAIN rows
    /\ UNCHANGED <<currentBatch, currentBatchSize, currentBatchFiles, batches,
                   cbError, runError, result, rows, flagVars, progress, exportVars, handles, authRefreshed,
                   limiterVars, ledgerVars>>

\* 'error' (or createReadStream throwing): the promise rejects, run()'s
\* catch calls progress.finish and rethrows
ReadFailure == [kind |-> "read error"]

ImportReadError ==
    /\ cmd = "import"
    /\ pc = "Reading"
    /\ pc' = "Failed"
    /\ runError' = ReadFailure
    /\ progress' = ProgressFinish(progress)
    /\ UNCHANGED <<batchVars, result, rows, flagVars, exportVars, handles, authRefreshed,
                   limiterVars, ledgerVars>>

\* line 182: batches.map((batch) => concurrencyLimit(...)): every batch is
\* enqueued, in order, each with its microtask
SubmitAll(n) ==
    /\ unit' = [u \in 1..n |-> QueuedUnit]
    /\ queue' = [u \in 1..n |-> u]
    /\ kicks' = n

\* refreshAuth resolves
AuthOk ==
    /\ cmd = "import"
    /\ pc = "Auth"
    /\ pc' = "Transferring"
    /\ SubmitAll(Len(batches))
    /\ UNCHANGED <<activeCount, requests, runError, result, rows, flagVars, progress, exportVars, handles,
                   batchVars, authRefreshed, ledgerVars>>

\* refreshAuth rejects
AuthFailure == [kind |-> "auth error"]

AuthFail ==
    /\ cmd = "import"
    /\ pc = "Auth"
    /\ pc' = "Failed"
    /\ runError' = AuthFailure
    /\ progress' = ProgressFinish(progress)
    /\ UNCHANGED <<batchVars, result, rows, flagVars, exportVars, handles, authRefreshed,
                   limiterVars, ledgerVars>>

AllFulfilled == \A u \in DOMAIN unit : unit[u].out = "fulfilled"
SomeRejected == \E u \in DOMAIN unit : unit[u].phase = "threw" \/ unit[u].out = "rejected"

\* lines 185-188: batchResults.reduce without an initial value
RECURSIVE SumResults(_, _)
SumResults(un, n) ==
    IF n = 1 THEN un[1].res
    ELSE LET acc == SumResults(un, n - 1) IN
         [total |-> acc.total + un[n].res.total,
          success |-> acc.success + un[n].res.success]

FinalResult == SumResults(unit, Len(unit))

ReduceFailure == [kind |-> "TypeError: Reduce of empty array with no initial value"]
UnitFailure == [kind |-> "TypeError: path argument must be of type string"]
WriteFailure == [kind |-> "write error"]

\* Promise.all(uploadTasks) resolves; the totals are reduced and logged and
\* writeFailuresToCsv is awaited (it returns at once on an empty ledger)
TransferDone ==
    /\ cmd = "import"
    /\ pc = "Transferring"
    /\ AllFulfilled
    /\ IF Len(unit) = 0
       THEN pc' = "Failed" /\ runError' = ReduceFailure /\ result' = result
       ELSE IF errLog = <<>>
       THEN pc' = "Done" /\ result' = FinalResult /\ runError' = runError
       ELSE pc' = "Writing" /\ UNCHANGED <<result, runError>>
    /\ progress' = ProgressFinish(progress)
    /\ UNCHANGED <<rows, flagVars, exportVars, handles, batchVars, authRefreshed, limiterVars, ledgerVars>>

\* Promise.all(uploadTasks) rejects with the first rejected unit
TransferRejected ==
    /\ cmd = "import"
    /\ pc = "Transferring"
    /\ SomeRejected
    /\ pc' = "Failed"
    /\ runError' = UnitFailure
    /\ progress' = ProgressFinish(progress)
    /\ UNCHANGED <<result, rows, flagVars, exportVars, handles, batchVars, authRefreshed, limiterVars,
                   ledgerVars>>

\* writeFailuresToCsv: fs.writeFile resolves, run returns finalResult
ImportWriteOk ==
    /\ cmd = "import"
    /\ pc = "Writing"
    /\ ledgerWritten' = TRUE
    /\ pc' = "Done"
    /\ result' = FinalResult
    /\ UNCHANGED <<runError, rows, flagVars, progress, exportVars, handles, batchVars, authRefreshed, limiterVars,
                   errLog, totalProcessed, successCount, failureCount>>

\* writeFailuresToCsv: fs.writeFile rejects
ImportWriteFail ==
    /\ cmd = "import"
    /\ pc = "Writing"
    /\ pc' = "Failed"
    /\ runError' = WriteFailure
    /\ progress' = ProgressFinish(progress)
    /\ UNCHANGED <<result, rows, flagVars, exportVars, handles, batchVars, authRefreshed, limiterVars,
                   ledgerVars>>

\* ------------------------------------------------------------- export run
\* lines 197-221: logError(message, id, details) builds one ledger entry.
\* `details.response?.status + ''` is the string "undefined" when the axios
\* error has no response, so its `?? 'unknown'` never applies.
LogError(message, id, details) ==
    LET base == [id |-> id, message |-> message, status |-> "unknown",
                 statusText |-> "unknown", url |-> "unknown", details |-> "unknown"] IN
    IF details.type = "none" THEN base
    ELSE IF details.type = "axios"
    THEN [base EXCEPT !.status = IF details.hasResponse THEN details.status ELSE "undefined",
                      !.statusText = IF details.hasResponse THEN details.statusText ELSE "unknown",
                      !.url = details.url]
    ELSE [base EXCEPT !.details = details.message]

\* errors of export
NoDetails == [type |-> "none"]
PlainError(message) == [type |-> "error", message |-> message]
HttpFetchError == [type |-> "axios", hasResponse |-> TRUE, status |-> "404",
                   statusText |-> "Not Found", url |-> "VersionData"]
NetFetchError == [type |-> "axios", hasResponse |-> FALSE, status |-> "",
                  statusText |-> "", url |-> "VersionData"]
FetchErrors == {HttpFetchError, NetFetchError}
StreamErrors == {PlainError("Stream error"), PlainError("write error")}
MissingId == PlainError("Missing ContentVersion ID in row")

\* lines 282-291: processRow's catch. An axios error's response stream is
\* destroyed; when the error has no response, `.destroy()` is called on
\* undefined and the TypeError replaces the error. The error is rethrown.
RowCatch(err) ==
    IF err.type = "axios" /\ ~err.hasResponse
    THEN PlainError("TypeError: Cannot read properties of undefined (reading 'destroy')")
    ELSE err

\* RowFailed that does not count the failure
RowFailedUncounted(u, err) ==
    /\ failureCount' = failureCount
    /\ errLog' = Append(errLog,
                    LogError(<<"Error processing row with ID",
                               IF ContentVersionId(rows[u]) = NoPath THEN <<"unknown">>
                               ELSE ContentVersionId(rows[u])>>,
                             ContentVersionId(rows[u]), err))
    /\ totalProcessed' = totalProcessed + 1
    /\ progress' = ProgressUpdate(progress, 1)
    /\ successCount' = successCount
    /\ LimiterNext(u, "fulfilled", [ok |-> FALSE], [kind |-> "failed", error |-> err])

\* lines 141-151: the limited function's catch and finally for row r
RowFailed(u, err) ==
    /\ failureCount' = failureCount + 1
    /\ errLog' = Append(errLog,
                    LogError(<<"Error processing row with ID",
                               IF ContentVersionId(rows[u]) = NoPath THEN <<"unknown">>
                               ELSE ContentVersionId(rows[u])>>,
                             ContentVersionId(rows[u]), err))
    /\ totalProcessed' = totalProcessed + 1
    /\ progress' = ProgressUpdate(progress, 1)
    /\ successCount' = successCount
    /\ LimiterNext(u, "fulfilled", [ok |-> FALSE], [kind |-> "failed", error |-> err])

\* lines 138-140, 149-151: processRow resolved
RowSucceeded(u) ==
    /\ successCount' = successCount + 1
    /\ totalProcessed' = totalProcessed + 1
    /\ progress' = ProgressUpdate(progress, 1)
    /\ UNCHANGED <<failureCount, errLog>>
    /\ LimiterNext(u, "fulfilled", [ok |-> TRUE], [kind |-> "saved"])

\* what processRow holds for a row: the response stream ("none", "open",
\* "ended" once piped to its end, "errored", "destroyed"), the writer
\* ("none", "open", "finished", "errored", "ended") and the error that
\* made processRow enter its catch block, if any
Holding(response, writer, cause) ==
    [response |-> response, writer |-> writer, cause |-> cause]
NoHandles == Holding("none", "none", NoDetails)

\* lines 267-281: what is held when the piping fails: the response stream
\* has emitted 'error', or the writer has
Failing(e) ==
    IF e = PlainError("Stream error") THEN Holding("errored", "open", e)
    ELSE Holding("open", "errored", e)

\* RowCleanup that destroys the response stream whatever the error
RowCleanupDestroying(err, h) ==
    [h EXCEPT !.response = IF @ # "none" THEN "destroyed" ELSE @,
              !.writer = IF @ # "none" THEN "ended" ELSE @]

\* lines 282-291: what processRow's catch does to what is held. Only an
\* axios error has its response stream destroyed (on an axios error without
\* response line 285 throws and line 288 is not reached); the writer, when
\* there is one, is ended
RowCleanup(err, h) ==
    IF err.type = "axios"
    THEN IF err.hasResponse
         THEN [h EXCEPT !.response = "destroyed",
                        !.writer = IF @ # "none" THEN "ended" ELSE @]
         ELSE h
    ELSE [h EXCEPT !.writer = IF @ # "none" THEN "ended" ELSE @]

Running(u, phase) == u \in DOMAIN unit /\ unit[u].st = "running" /\ unit[u].phase = phase

exportUnitFrame == <<kicks, pc, runError, result, rows, flagVars, exportVars, batchVars,
                     authRefreshed, ledgerWritten>>

\* lines 240-242: the row has no id; processRow throws before any request
ExportNoId ==
    /\ cmd = "export"
    /\ \E u \in DOMAIN unit : Running(u, "noid") /\ RowFailed(u, MissingId)
    /\ UNCHANGED handles
    /\ UNCHANGED exportUnitFrame

\* lines 257-265: axios.get resolves; the destination writer is created and
\* the response is piped into it
ExportFetchOk ==
    /\ cmd = "export"
    /\ \E u \in DOMAIN unit :
        /\ Running(u, "fetching")
        /\ LET sink == OpenSink(outDir, FileName(rows[u])) IN
            /\ sinksOpened' = sinksOpened + 1
            /\ outDir' = sink.dir
            /\ IF sink.ok
               THEN /\ unit' = [unit EXCEPT ![u] = [@ EXCEPT !.phase = "streaming"]]
                    /\ UNCHANGED <<queue, activeCount, requests, errLog, progress,
                                   totalProcessed, successCount, failureCount>>
               ELSE RowFailed(u, PlainError("EEXIST: file already exists"))
            /\ handles' = [handles EXCEPT ![u] =
                  IF sink.ok THEN Holding("open", "open", NoDetails)
                  ELSE RowCleanup(PlainError("EEXIST: file already exists"),
                                  Holding("open", "none",
                                          PlainError("EEXIST: file already exists")))]
    /\ UNCHANGED <<kicks, pc, runError, result, rows, flagVars, batchVars,
                   authRefreshed, ledgerWritten, idFieldName, extColName, previous>>

\* axios.get rejects
ExportFetchFail ==
    /\ cmd = "export"
    /\ \E u \in DOMAIN unit, e \in FetchErrors :
        /\ Running(u, "fetching")
        /\ RowFailed(u, RowCatch(e))
        /\ handles' = [handles EXCEPT ![u] =
              RowCleanup(e, Holding(IF e.hasResponse THEN "open" ELSE "none", "none", e))]
    /\ UNCHANGED exportUnitFrame

\* lines 267-281: the writer emits 'finish'
ExportStreamDone ==
    /\ cmd = "export"
    /\ \E u \in DOMAIN unit :
        /\ Running(u, "streaming")
        /\ RowSucceeded(u)
        /\ handles' = [handles EXCEPT ![u] = Holding("ended", "finished", NoDetails)]
    /\ UNCHANGED exportUnitFrame

\* the response stream or the writer emits 'error'
ExportStreamFail ==
    /\ cmd = "export"
    /\ \E u \in DOMAIN unit, e \in StreamErrors :
        /\ Running(u, "streaming")
        /\ RowFailed(u, RowCatch(e))
        /\ handles' = [handles EXCEPT ![u] = RowCleanup(e, Failing(e))]
    /\ UNCHANGED exportUnitFrame

\* lines 118-119: ensureOutputDirectory, then refreshAuth is awaited
ExportStart ==
    /\ cmd = "export"
    /\ pc = "Idle"
    /\ pc' = "Auth"
    /\ authRefreshed' = TRUE
    /\ UNCHANGED <<runError, result, rows, flagVars, progress, exportVars, handles, batchVars, limiterVars, ledgerVars>>

ExportAuthOk ==
    /\ cmd = "export"
    /\ pc = "Auth"
    /\ pc' = "Reading"
    /\ UNCHANGED <<runError, result, rows, flagVars, progress, exportVars, handles, batchVars, authRefreshed,
                   limiterVars, ledgerVars>>

ExportAuthFail ==
    /\ cmd = "export"
    /\ pc = "Auth"
    /\ pc' = "Failed"
    /\ runError' = AuthFailure
    /\ UNCHANGED <<result, rows, flagVars, progress, exportVars, handles, batchVars, authRefreshed, limiterVars,
                   ledgerVars>>

\* the manifest a run reads: any manifest of the bounded length on a first
\* run; on the run made again, the manifest of the run before, whose rows
\* all had their id
ManifestRows == IF previous = NoRun THEN MaxExportRows ELSE previous.rows
ManifestIds == IF previous = NoRun THEN BOOLEAN ELSE {TRUE}
ManifestRead == previous = NoRun \/ Len(rows) = previous.rows

\* lines 133-154, 'data': totalFiles++ and tasks.push(limit(...)): the unit
\* of the row is enqueued at once, with its microtask
ExportData ==
    /\ cmd = "export"
    /\ pc = "Reading"
    /\ Len(rows) < ManifestRows
    /\ \E hasId \in ManifestIds :
        rows' = Append(rows, ExportRow(RowNumber(Len(rows) + 1), hasId))
    /\ unit' = Append(unit, QueuedUnit)
    /\ handles' = Append(handles, NoHandles)
    /\ queue' = Append(queue, Len(rows) + 1)
    /\ kicks' = kicks + 1
    /\ UNCHANGED <<activeCount, requests, pc, runError, result, flagVars, progress, exportVars, batchVars,
                   authRefreshed, ledgerVars>>

\* lines 155-164, 'end': with no rows the promise resolves at once;
\* otherwise Promise.allSettled(tasks) is awaited
ExportEnd ==
    /\ cmd = "export"
    /\ pc = "Reading"
    /\ ManifestRead
    /\ IF Len(rows) = 0
       THEN /\ pc' = "Done"
            /\ result' = [successCount |-> 0, failureCount |-> 0]
            /\ progress' = progress
       ELSE /\ pc' = "Settling"
            /\ result' = result
            /\ progress' = ProgressStart(progress)
    /\ UNCHANGED <<runError, rows, flagVars, exportVars, handles, batchVars, authRefreshed, limiterVars,
                   ledgerVars>>

AllSettled == \A u \in DOMAIN unit : unit[u].st = "settled"

\* lines 166-184: every task has settled. writeFailuresToCsv writes the
\* ledger when it is not empty; a failed write makes this.error throw, the
\* .catch handler logs a 'Fatal error' entry and writes again, and only if
\* that second write succeeds is reject(err) reached.
ExportSettled ==
    /\ cmd = "export"
    /\ pc = "Settling"
    /\ AllSettled
    /\ \/ /\ pc' = "Done"
          /\ ledgerWritten' = (ledgerWritten \/ errLog # <<>>)
          /\ result' = [successCount |-> successCount, failureCount |-> failureCount]
          /\ UNCHANGED <<runError, errLog>>
       \/ /\ errLog # <<>>
          /\ errLog' = Append(errLog,
                 LogError(<<"Fatal error during export process">>, NoPath,
                          PlainError("Failed to write error log")))
          /\ \/ pc' = "Failed" /\ runError' = WriteFailure /\ ledgerWritten' = TRUE
             \/ pc' = "Hung" /\ runError' = runError /\ ledgerWritten' = ledgerWritten
          /\ result' = result
    /\ progress' = ProgressFinish(progress)
    /\ UNCHANGED <<rows, flagVars, exportVars, handles, batchVars, authRefreshed, limiterVars,
                   totalProcessed, successCount, failureCount>>

\* lines 186-191, 'error': the error is logged to the ledger, the ledger is
\* written and the promise rejects. A failed write makes this.error throw
\* out of the event handler before reject is reached.
ExportReadError ==
    /\ cmd = "export"
    /\ pc = "Reading"
    /\ errLog' = Append(errLog,
           LogError(<<"Error reading CSV file">>, NoPath, PlainError("read error")))
    /\ \/ pc' = "Failed" /\ runError' = ReadFailure /\ ledgerWritten' = TRUE
       \/ pc' = "Crashed" /\ runError' = runError /\ ledgerWritten' = ledgerWritten
    /\ progress' = ProgressFinish(progress)
    /\ UNCHANGED <<result, rows, flagVars, exportVars, handles, batchVars, authRefreshed, limiterVars,
                   totalProcessed, successCount, failureCount>>

\* fs.createReadStream throws inside the promise executor (as the test
\* 'should fail when CSV file cannot be read' makes it): the promise rejects
ExportOpenThrows ==
    /\ cmd = "export"
    /\ pc = "Reading"
    /\ rows = <<>>
    /\ pc' = "Failed"
    /\ runError' = ReadFailure
    /\ UNCHANGED <<result, rows, flagVars, progress, exportVars, handles, batchVars, authRefreshed, limiterVars,
                   ledgerVars>>

\* the command is run again over the output directory a first run has left,
\* every row of which was saved, with the same flags and the same manifest:
\* a new FileExport starts from its constructed state
ExportAgain ==
    /\ cmd = "export"
    /\ pc = "Done"
    /\ previous = NoRun
    /\ rows # <<>>
    /\ successCount = Len(rows)
    /\ previous' = [rows |-> Len(rows), dir |-> outDir]
    /\ pc' = "Idle"
    /\ result' = NoResult
    /\ rows' = <<>>
    /\ authRefreshed' = FALSE
    /\ queue' = <<>>
    /\ activeCount' = 0
    /\ kicks' = 0
    /\ unit' = <<>>
    /\ requests' = 0
    /\ totalProcessed' = 0
    /\ successCount' = 0
    /\ sinksOpened' = 0
    /\ progress' = NewProgress
    /\ handles' = <<>>
    /\ UNCHANGED <<runError, flagVars, batchVars, errLog, failureCount,
                   ledgerWritten, idFieldName, extColName, outDir>>

\* the state after construction and flag parsing
InitCommon ==
    /\ pc = "Idle"
    /\ runError = NoError
    /\ result = NoResult
    /\ rows = <<>>
    /\ disk = <<>>
    /\ pending = {}
    /\ currentBatch = <<>>
    /\ currentBatchSize = 0
    /\ currentBatchFiles = 0
    /\ batches = <<>>
    /\ cbError = NoError
    /\ authRefreshed = FALSE
    /\ queue = <<>>
    /\ activeCount = 0
    /\ kicks = 0
    /\ unit = <<>>
    /\ requests = 0
    /\ errLog = <<>>
    /\ totalProcessed = 0
    /\ successCount = 0
    /\ failureCount = 0
    /\ ledgerWritten = FALSE
    /\ outDir = {}
    /\ sinksOpened = 0
    /\ previous = NoRun
    /\ progress = NewProgress
    /\ handles = <<>>

\* --batch-size is a flag of import; --id and --ext-col-name are flags of export
Init ==
    /\ \/ /\ cmd = "import"
          /\ batchSizeBytes \in {f * BytesPerMB : f \in 1..MaxBatchFlag}
          /\ idFieldName = "Id"
          /\ extColName = ""
       \/ /\ cmd = "export"
          /\ batchSizeBytes = BytesPerMB
          /\ idFieldName \in {"Id", "CvId"}
          /\ extColName \in {"", "Ext"}
    /\ order = "any"
    /\ manifestIds = "distinct"
    /\ concurrency \in 1..MaxConc
    /\ InitCommon

Next ==
    \/ ImportStart
    \/ ImportData
    \/ ImportEnd
    \/ ImportReadError
    \/ ProbeOk
    \/ ProbeFail
    \/ BatchingDone
    \/ BatchingFailed
    \/ AuthOk
    \/ AuthFail
    \/ Kick
    \/ BatchReply
    \/ BatchThrew
    \/ TransferDone
    \/ TransferRejected
    \/ ImportWriteOk
    \/ ImportWriteFail
    \/ ExportStart
    \/ ExportAuthOk
    \/ ExportAuthFail
    \/ ExportData
    \/ ExportEnd
    \/ ExportReadError
    \/ ExportOpenThrows
    \/ ExportNoId
    \/ ExportFetchOk
    \/ ExportFetchFail
    \/ ExportStreamDone
    \/ ExportStreamFail
    \/ ExportSettled
    \/ ExportAgain

Spec == Init /\ [][Next]_vars

\* ------------------------------------------------------- runs that go on
\* every step of a run but the answer to axios.post: reading the manifest,
\* probing the disk, the limiter's microtasks and settled promises are the
\* program's own, refreshAuth and the writes are local calls, and the
\* download is bounded by the timeout of export.ts line 260
Bounded ==
    \/ ImportStart
    \/ ImportData
    \/ ImportEnd
    \/ ImportReadError
    \/ ProbeOk
    \/ ProbeFail
    \/ BatchingDone
    \/ BatchingFailed
    \/ AuthOk
    \/ AuthFail
    \/ Kick
    \/ BatchThrew
    \/ TransferDone
    \/ TransferRejected
    \/ ImportWriteOk
    \/ ImportWriteFail
    \/ ExportStart
    \/ ExportAuthOk
    \/ ExportAuthFail
    \/ ExportData
    \/ ExportEnd
    \/ ExportReadError
    \/ ExportOpenThrows
    \/ ExportNoId
    \/ ExportFetchOk
    \/ ExportFetchFail
    \/ ExportStreamDone
    \/ ExportStreamFail
    \/ ExportSettled
    \/ ExportAgain

\* a run in which every bounded step that stays possible is taken; the
\* axios.post of import.ts lines 276-285 is given no timeout, so nothing
\* makes its answer arrive
SpecFair == Init /\ [][Next]_vars /\ WF_vars(Bounded)

\* a run in which, moreover, the remote end answers every upload
SpecFairSettling == Init /\ [][Next]_vars /\ WF_vars(Next)

\* ------------------------------------------------- createBatches on its own
\* createBatches returns its batches (lines 129-132)
CreateBatchesReturn ==
    /\ cmd = "batch"
    /\ pc = "Batching"
    /\ pending = {}
    /\ cbError = NoError
    /\ batches' = Emitted
    /\ pc' = "Resolved"
    /\ UNCHANGED <<pending, currentBatch, currentBatchSize, currentBatchFiles,
                   cbError, runError, result, rows, flagVars, progress, exportVars, handles, authRefreshed,
                   limiterVars, ledgerVars>>

\* the promise of createBatches rejects (lines 106, 124)
CreateBatchesThrow ==
    /\ cmd = "batch"
    /\ pc = "Batching"
    /\ cbError # NoError
    /\ pc' = "Rejected"
    /\ runError' = cbError
    /\ UNCHANGED <<batchVars, result, rows, flagVars, progress, exportVars, handles, authRefreshed,
                   limiterVars, ledgerVars>>

BatchFileSizes == FileSizes \cup {0}
BatchDiskStates == {File(n) : n \in BatchFileSizes} \cup {NoFile}
Oversized == File(MaxBatchFlag * BytesPerMB + 1)

\* createBatches(rows, maxBatchSize) is called with every fs.stat issued.
\* Short manifests are probed in every order over every disk; manifests
\* around MAX_SUBREQUESTS rows hold equal files, but for at most one
\* oversized file, and are probed first to last or last to first.
InitBatch ==
    /\ cmd = "batch"
    /\ batchSizeBytes \in {f * BytesPerMB : f \in 1..MaxBatchFlag}
    /\ concurrency = 1
    /\ manifestIds = "distinct"
    /\ \/ /\ order = "any"
          /\ \E n \in 0..MaxBatchRows :
                /\ rows = [i \in 1..n |-> CSVRow(i, TRUE)]
                /\ disk \in [1..n -> BatchDiskStates]
       \/ /\ order \in {"asc", "desc"}
          /\ \E n \in (MAX_SUBREQUESTS - 1)..(MAX_SUBREQUESTS + MaxExtra) :
                /\ rows = [i \in 1..n |-> CSVRow(i, TRUE)]
                /\ \E small \in {0, 1}, big \in {0, 1, n} :
                      disk = [i \in 1..n |-> IF i = big THEN Oversized ELSE File(small)]
    /\ pending = DOMAIN rows
    /\ pc = "Batching"
    /\ runError = NoError
    /\ result = NoResult
    /\ currentBatch = <<>>
    /\ currentBatchSize = 0
    /\ currentBatchFiles = 0
    /\ batches = <<>>
    /\ cbError = NoError
    /\ authRefreshed = FALSE
    /\ queue = <<>>
    /\ activeCount = 0
    /\ kicks = 0
    /\ unit = <<>>
    /\ requests = 0
    /\ errLog = <<>>
    /\ totalProcessed = 0
    /\ successCount = 0
    /\ failureCount = 0
    /\ ledgerWritten = FALSE
    /\ idFieldName = "Id"
    /\ extColName = ""
    /\ outDir = {}
    /\ sinksOpened = 0
    /\ previous = NoRun
    /\ progress = NewProgress
    /\ handles = <<>>

NextBatch ==
    \/ ProbeOk
    \/ ProbeFail
    \/ CreateBatchesReturn
    \/ CreateBatchesThrow

SpecBatch == InitBatch /\ [][NextBatch]_vars

\* ------------------------------------------- the destination name on its own
\* characters of the extension hints explored
HintChars == {"r", "p", "."}
Hints == UNION {[1..n -> HintChars] : n \in 0..MaxHintLen}

\* lines 238-265 of processRow for one row with an id, the fetch having
\* succeeded: the file name is computed and the sink opened under it
NameDestination ==
    /\ cmd = "name"
    /\ pc = "Idle"
    /\ pc' = "Named"
    /\ sinksOpened' = sinksOpened + 1
    /\ outDir' = OpenSink(outDir, FileName(rows[1])).dir
    /\ UNCHANGED <<runError, result, rows, flagVars, progress, batchVars, authRefreshed,
                   limiterVars, ledgerVars, idFieldName, extColName, previous,
                   handles>>

\* one row with the id '123' (or '456' in the other id column) and any hint,
\* under every setting of --id and --ext-col-name
InitName ==
    /\ cmd = "name"
    /\ batchSizeBytes = BytesPerMB
    /\ concurrency = 1
    /\ manifestIds = "distinct"
    /\ order = "any"
    /\ idFieldName \in {"Id", "CvId"}
    /\ extColName \in {"", "Ext"}
    /\ \E h \in Hints :
          rows = <<[Id |-> <<"1", "2", "3">>, CvId |-> <<"4", "5", "6">>, Ext |-> h]>>
    /\ pc = "Idle"
    /\ runError = NoError
    /\ result = NoResult
    /\ disk = <<>>
    /\ pending = {}
    /\ currentBatch = <<>>
    /\ currentBatchSize = 0
    /\ currentBatchFiles = 0
    /\ batches = <<>>
    /\ cbError = NoError
    /\ authRefreshed = FALSE
    /\ queue = <<>>
    /\ activeCount = 0
    /\ kicks = 0
    /\ unit = <<>>
    /\ requests = 0
    /\ errLog = <<>>
    /\ totalProcessed = 0
    /\ successCount = 0
    /\ failureCount = 0
    /\ ledgerWritten = FALSE
    /\ outDir = {}
    /\ sinksOpened = 0
    /\ previous = NoRun
    /\ progress = NewProgress
    /\ handles = <<>>

NextName == NameDestination

SpecName == InitName /\ [][NextName]_vars

\* ------------------------------------------ the record descriptor on its own
\* pieces of the column names explored: a piece is a run of characters
\* without '.' and ':' or one of these two separators
KeyPieces == {"Title", "F", "T", "P", ".", ":"}
\* names an extra column can have; Title (like VersionData and PathOnClient)
\* is taken out of the row by the destructuring of line 222
Keys == (UNION {[1..n -> KeyPieces] : n \in 1..MaxKeyLen}) \ {<<"Title">>}
\* a second extra column, later in the row than the first
SecondKeys == {<<"F">>, <<"F", ".", "P">>, <<"T", ":", "F", ".", "P">>, <<"attributes">>}

\* String.prototype.includes for one separator
Includes(s, sep) == \E k \in DOMAIN s : s[k] = sep

\* String.prototype.split for one separator: every piece between two
\* occurrences, the empty ones included
RECURSIVE Split(_, _)
Split(s, sep) ==
    IF ~Includes(s, sep) THEN <<s>>
    ELSE LET k == CHOOSE i \in DOMAIN s :
                      s[i] = sep /\ \A j \in 1..(i - 1) : s[j] # sep
         IN  <<SubSeq(s, 1, k - 1)>> \o Split(SubSeq(s, k + 1, Len(s)), sep)

\* a value of the record descriptor: the cell itself ("flat"), { [P]: cell }
\* ("nested"), { attributes: { type: T }, [P]: cell } ("polymorphic") or the
\* attributes of the ContentVersion itself
FieldValue(kind, type, parentField, value) ==
    [kind |-> kind, type |-> type, parentField |-> parentField, value |-> value]

\* the parser keeping the flat form only
OtherPropFlatOnly(key, value) ==
    [field |-> key, value |-> FieldValue("flat", NoPath, NoPath, value)]

\* lines 225-241: the field one extra column sets in otherProps and its
\* value. Only the first two pieces of key.split('.') and of
\* fieldNamePart.split(':') are read; null and '' both fail the test of
\* line 235
OtherProp(key, value) ==
    IF ~Includes(key, ".")
    THEN [field |-> key, value |-> FieldValue("flat", NoPath, NoPath, value)]
    ELSE LET parts == Split(key, ".")
             fieldNamePart == parts[1]
             parentFieldName == parts[2]
             pair == IF Includes(fieldNamePart, ":")
                     THEN Split(fieldNamePart, ":")
                     ELSE <<fieldNamePart, NoPath>>
             fieldName == pair[1]
             parentObject == pair[2]
         IN  IF parentObject # NoPath
             THEN [field |-> fieldName,
                   value |-> FieldValue("polymorphic", parentObject,
                                        parentFieldName, value)]
             ELSE [field |-> fieldName,
                   value |-> FieldValue("nested", NoPath, parentFieldName, value)]

\* lines 223-242: otherProps after the loop over Object.entries(theRest); a
\* later column setting the same field replaces the earlier one
OtherProps(theRest) ==
    LET set == [k \in DOMAIN theRest |-> OtherProp(theRest[k].key, theRest[k].value)]
        fields == {set[k].field : k \in DOMAIN set}
    IN  [f \in fields |->
            LET last == CHOOSE k \in DOMAIN set :
                            set[k].field = f
                            /\ \A j \in DOMAIN set : set[j].field = f => j <= k
            IN  set[last].value]

\* lines 244-253: the record pushed for one row; the spread of otherProps
\* comes last and replaces a fixed field of the same name
ContentVersionRequest(row, partName) ==
    LET otherProps == OtherProps(row.theRest)
        fixed == {<<"attributes">>, <<"Title">>, <<"PathOnClient">>}
    IN  [f \in fixed \cup DOMAIN otherProps |->
            IF f \in DOMAIN otherProps THEN otherProps[f]
            ELSE IF f = <<"attributes">>
                 THEN FieldValue("attributes", <<"ContentVersion">>, NoPath, partName)
            ELSE IF f = <<"Title">>
                 THEN FieldValue("flat", NoPath, NoPath, row.Title)
            ELSE FieldValue("flat", NoPath, NoPath, row.PathOnClient)]

\* line 221: the i-th name uuidv4() generates within one call of
\* processBatch; the library's contract is that no two are equal
Uuid(i) == <<"part", i>>

\* lines 220-261: batch.map stops at the first row whose PathOnClient is
\* undefined (getContentTypeFromFileName throws, after the row's record was
\* pushed); Mapped is the number of rows the callback was called on
Mapped(batch) ==
    IF BatchThrows(batch)
    THEN CHOOSE k \in DOMAIN batch :
            /\ batch[k].PathOnClient = NoPath
            /\ \A j \in 1..(k - 1) : batch[j].PathOnClient # NoPath
    ELSE Len(batch)

\* lines 219-253: `records` after the map
Records(batch) ==
    [i \in 1..Mapped(batch) |-> ContentVersionRequest(batch[i], Uuid(i))]

\* lines 255-260: `binaryParts`, the value of the map
BinaryParts(batch) ==
    [i \in 1..Len(batch) |->
        [partName |-> Uuid(i), versionData |-> batch[i].VersionData,
         filePath |-> batch[i].PathOnClient]]

\* lines 264-274: the form posted: the collection first, then one part for
\* each element of binaryParts in its order; none when the map threw
NoForm == [kind |-> "none"]
FormData(batch) ==
    IF BatchThrows(batch) THEN NoForm
    ELSE [kind |-> "form", collection |-> Records(batch), parts |-> BinaryParts(batch)]

\* lines 219-274 of processBatch for the batch `rows`
BuildRecord ==
    /\ cmd = "record"
    /\ pc = "Idle"
    /\ pc' = "Built"
    /\ result' = [kind |-> "record", records |-> Records(rows), form |-> FormData(rows)]
    /\ UNCHANGED <<runError, rows, flagVars, progress, batchVars, authRefreshed,
                   limiterVars, ledgerVars, exportVars, handles>>

\* a batch of one to MaxRecordRows rows with one or two extra columns, the
\* first under every name; at most one row has no PathOnClient
InitRecord ==
    /\ cmd = "record"
    /\ batchSizeBytes = BytesPerMB
    /\ concurrency = 1
    /\ manifestIds = "distinct"
    /\ order = "any"
    /\ idFieldName = "Id"
    /\ extColName = ""
    /\ \E key \in Keys, more \in SUBSET SecondKeys, n \in 1..MaxRecordRows :
        \E noPath \in 0..n :
          /\ Cardinality(more) <= 1
          /\ rows = [i \in 1..n |->
                      [Title |-> <<"title", i>>,
                       VersionData |-> <<"file", i>>,
                       PathOnClient |-> IF i # noPath THEN <<"path", i>> ELSE NoPath,
                       theRest |-> <<[key |-> key, value |-> <<"cell", i, 1>>]>>
                           \o (IF more = {} THEN <<>>
                               ELSE <<[key |-> CHOOSE k \in more : TRUE,
                                       value |-> <<"cell", i, 2>>]>>)]]
    /\ pc = "Idle"
    /\ runError = NoError
    /\ result = NoResult
    /\ disk = <<>>
    /\ pending = {}
    /\ currentBatch = <<>>
    /\ currentBatchSize = 0
    /\ currentBatchFiles = 0
    /\ batches = <<>>
    /\ cbError = NoError
    /\ authRefreshed = FALSE
    /\ queue = <<>>
    /\ activeCount = 0
    /\ kicks = 0
    /\ unit = <<>>
    /\ requests = 0
    /\ errLog = <<>>
    /\ totalProcessed = 0
    /\ successCount = 0
    /\ failureCount = 0
    /\ ledgerWritten = FALSE
    /\ outDir = {}
    /\ sinksOpened = 0
    /\ previous = NoRun
    /\ progress = NewProgress
    /\ handles = <<>>

NextRecord == BuildRecord

SpecRecord == InitRecord /\ [][NextRecord]_vars

\* ------------------------------------- export of a manifest repeating an id
\* an export run (and its rerun) over a manifest whose second row repeats
\* the cells of the first
InitTwin ==
    /\ cmd = "export"
    /\ batchSizeBytes = BytesPerMB
    /\ idFieldName \in {"Id", "CvId"}
    /\ extColName \in {"", "Ext"}
    /\ order = "any"
    /\ manifestIds = "repeated"
    /\ concurrency \in 1..MaxConc
    /\ InitCommon

NextTwin ==
    \/ ExportStart
    \/ ExportAuthOk
    \/ ExportAuthFail
    \/ ExportData
    \/ ExportEnd
    \/ ExportReadError
    \/ ExportOpenThrows
    \/ Kick
    \/ ExportNoId
    \/ ExportFetchOk
    \/ ExportFetchFail
    \/ ExportStreamDone
    \/ ExportStreamFail
    \/ ExportSettled
    \/ ExportAgain

SpecTwin == InitTwin /\ [][NextTwin]_vars

\* ================================================================== claims
\* the index of a row in the manifest, and the bytes of a batch as probed
RowIndex(r) == r.Title[2]
BatchBytes(batch) == SumSeq([k \in DOMAIN batch |-> disk[RowIndex(batch[k])].size])
BatchLengths == [b \in DOMAIN batches |-> Len(batches[b])]
Occurrences(r) ==
    SumSeq([b \in DOMAIN batches |->
              Cardinality({k \in DOMAIN batches[b] : batches[b][k] = r})])

\* C1: when createBatches returns (every probe having succeeded, in whatever
\* order), every input record is in exactly one emitted batch exactly once,
\* and the batch lengths add up to the number of input records
C1_EveryRecordInExactlyOneBatch ==
    pc = "Resolved" =>
        /\ \A i \in DOMAIN rows : Occurrences(rows[i]) = 1
        /\ SumSeq(BatchLengths) = Len(rows)

\* three or more records returned in two or more batches, probed out of
\* manifest order
C1_Witness ==
    /\ pc = "Resolved"
    /\ Len(rows) >= 3
    /\ Len(batches) >= 2
    /\ Flatten(batches) # rows

\* C2: when createBatches returns, every emitted batch weighs at most
\* maxBatchSize in probed bytes or holds exactly one record
C2_BatchWithinBytesOrSingleton ==
    pc = "Resolved" =>
        \A b \in DOMAIN batches :
            BatchBytes(batches[b]) <= batchSizeBytes \/ Len(batches[b]) = 1

\* an oversized singleton beside a batch of several records
C2_Witness ==
    /\ pc = "Resolved"
    /\ \E b \in DOMAIN batches :
          Len(batches[b]) = 1 /\ BatchBytes(batches[b]) > batchSizeBytes
    /\ \E b \in DOMAIN batches :
          Len(batches[b]) >= 2 /\ BatchBytes(batches[b]) > 0

\* C3: no batch, emitted or being filled, ever holds more than
\* MAX_SUBREQUESTS records, whatever the byte ceiling and the sizes
C3_AtMostMaxSubrequests ==
    /\ Len(currentBatch) <= MAX_SUBREQUESTS
    /\ \A b \in DOMAIN batches : Len(batches[b]) <= MAX_SUBREQUESTS

\* more than MAX_SUBREQUESTS records that fit the byte ceiling together: a
\* full batch is emitted and the rest follows in another
C3_Witness ==
    /\ pc = "Resolved"
    /\ Len(rows) > MAX_SUBREQUESTS
    /\ BatchBytes(rows) <= batchSizeBytes
    /\ \E b \in DOMAIN batches : Len(batches[b]) = MAX_SUBREQUESTS


\* units started and not yet settled
InFlight == {u \in DOMAIN unit : unit[u].st = "running"}

\* C4: with the run's one limiter of capacity N = concurrency, the units
\* started and not yet settled never number more than N (import and export)
C4_AtMostNInFlight == Cardinality(InFlight) <= concurrency

\* N = 1 with three units submitted: one runs, two wait
C4_Witness ==
    /\ concurrency = 1
    /\ Cardinality(InFlight) = 1
    /\ Len(queue) >= 2

\* C5 (as claimed): when an import run returns, the returned total is the
\* returned success count plus the length of the failure ledger
C5_TotalIsSuccessPlusFailures ==
    (cmd = "import" /\ pc = "Done") =>
        result.total = result.success + Len(errLog)

\* a reply that is an array aligned with the batch, every failed result
\* carrying at least one error
Aligned(u) ==
    /\ unit[u].reply.kind = "response"
    /\ Len(unit[u].reply.data) = Len(batches[u])
    /\ \A k \in DOMAIN unit[u].reply.data :
          unit[u].reply.data[k].success \/ unit[u].reply.data[k].errors # <<>>

\* the ledger entries about the records of batch u, in ledger order
EntriesOf(u) ==
    LET Mine(e) == \E k \in DOMAIN batches[u] : e.title = batches[u][k].Title
    IN SelectSeq(errLog, Mine)

NotSeparator(x) == x # "|"

\* C6: after an aligned reply, result i is attributed to record i: the
\* unit's success count is the number of results with success = true, and the
\* ledger holds for the batch exactly one entry per failed result, in result
\* order, with the record's title and path and the first error's message,
\* status code and fields
C6_AlignedReplyAttributed ==
    cmd = "import" =>
        \A u \in DOMAIN unit :
            (unit[u].st = "settled" /\ Aligned(u)) =>
                LET data == unit[u].reply.data
                    failed == {k \in DOMAIN data : ~data[k].success}
                    rank(k) == Cardinality({i \in failed : i <= k})
                    mine == EntriesOf(u)
                IN /\ unit[u].out = "fulfilled"
                   /\ unit[u].res.total = Len(batches[u])
                   /\ unit[u].res.success = Cardinality(DOMAIN data \ failed)
                   /\ Len(mine) = Cardinality(failed)
                   /\ \A k \in failed :
                        /\ mine[rank(k)].success = FALSE
                        /\ mine[rank(k)].title = batches[u][k].Title
                        /\ mine[rank(k)].versionData = batches[u][k].VersionData
                        /\ mine[rank(k)].error = data[k].errors[1].message
                        /\ mine[rank(k)].statusText = data[k].errors[1].statusCode
                        /\ SelectSeq(mine[rank(k)].fields, NotSeparator)
                             = data[k].errors[1].fields

\* a batch of two records answered [success, failure 'bad']
C6_Witness ==
    /\ cmd = "import"
    /\ \E u \in DOMAIN unit :
        /\ unit[u].st = "settled"
        /\ unit[u].reply.kind = "response"
        /\ unit[u].reply.data = <<OkResult, FailBad>>
        /\ Len(batches[u]) = 2
        /\ unit[u].res.success = 1
        /\ Len(EntriesOf(u)) = 1
        /\ EntriesOf(u)[1].error = "bad"

\* C7: after a transport failure every record of the batch has exactly one
\* ledger entry, carrying the error's message and status; the unit settles
\* normally with total = batch length and success = 0
C7_TransportFailureFailsEveryRecord ==
    cmd = "import" =>
        \A u \in DOMAIN unit :
            (unit[u].st = "settled" /\ unit[u].reply.kind = "error") =>
                /\ unit[u].out = "fulfilled"
                /\ unit[u].res.total = Len(batches[u])
                /\ unit[u].res.success = 0
                /\ \A k \in DOMAIN batches[u] :
                     \E i \in DOMAIN errLog :
                        /\ errLog[i].title = batches[u][k].Title
                        /\ errLog[i].success = FALSE
                        /\ errLog[i].error = unit[u].reply.error.message
                        /\ errLog[i].statusText = unit[u].reply.error.statusText
                        /\ \A j \in DOMAIN errLog :
                              errLog[j].title = batches[u][k].Title => j = i

\* a batch of two records whose request failed with an HTTP error
C7_Witness ==
    /\ cmd = "import"
    /\ \E u \in DOMAIN unit :
        /\ unit[u].st = "settled"
        /\ unit[u].reply.kind = "error"
        /\ unit[u].reply.error = HttpError
        /\ Len(batches[u]) = 2
        /\ Len(errLog) = 2

\* a unit's promise has settled: the limiter has seen it settle, or the unit
\* threw on being started (its promise is rejected, the slot not yet freed)
UnitSettled(u) == unit[u].st = "settled" \/ unit[u].phase = "threw"

\* C8 (as claimed, read errors of the manifest set aside): the run does not
\* conclude before every submitted unit has settled, whatever units failed
C8_RunConcludesAfterAllSettled ==
    (pc \in {"Done", "Failed"} /\ runError # ReadFailure) =>
        \A u \in DOMAIN unit : UnitSettled(u)

\* C9: once a size probe has failed, createBatches fails with an error
\* naming the binary path of a record whose probe failed, the run can only
\* end Failed with that error, and no remote request is ever issued: neither
\* the auth refresh nor an upload. A run over a manifest with a missing
\* binary never gets as far as the auth refresh.
C9_ProbeFailureIsFatal ==
    cmd = "import" =>
        /\ (\E i \in DOMAIN rows : ~disk[i].exists) =>
              /\ ~authRefreshed
              /\ requests = 0
              /\ unit = <<>>
              /\ pc \in {"Idle", "Reading", "Batching", "Failed"}
        /\ cbError # NoError =>
              /\ cbError.kind = "Error processing file"
              /\ \E i \in DOMAIN rows \ pending :
                    ~disk[i].exists /\ cbError.file = rows[i].VersionData
              /\ \/ pc = "Failed" /\ runError = cbError
                 \/ pc = "Batching" /\ ENABLED BatchingFailed

\* the run has failed on one record's probe while another is still probed
C9_Witness ==
    /\ cmd = "import"
    /\ pc = "Failed"
    /\ cbError # NoError
    /\ runError = cbError
    /\ pending # {}
    /\ Len(currentBatch) = 0

\* C10 (as claimed): when the run has failed on reading the manifest, no
\* TransferUnit has been started and no transfer request issued
C10_ReadErrorBeforeAnyUnit ==
    (pc = "Failed" /\ runError = ReadFailure) =>
        /\ \A u \in DOMAIN unit : unit[u].st = "queued"
        /\ requests = 0
\* C11 (as claimed, a failed write of the ledger file set aside): a run that
\* has read its manifest and submitted its units does not end Failed, whatever
\* the units' outcomes
C11_UnitOutcomesNeverFailTheRun ==
    (pc = "Failed" /\ unit # <<>>) => runError \in {ReadFailure, WriteFailure}

\* how the command's promise stands, which is what the exit status shows:
\* import.ts lines 194 and 197, export.ts lines 178, 183 and 190
Outcome ==
    IF pc = "Done" THEN "resolved" ELSE IF pc = "Failed" THEN "rejected" ELSE "pending"

\* C12 (as claimed): a run that concludes with a non-empty failure ledger
\* does not end as a run without failures ends, which is by resolving
C12_StatusReflectsFailures ==
    (pc \in {"Done", "Failed"} /\ errLog # <<>>) => Outcome # "resolved"

\* C13 (as claimed): a row whose id (export) or binary path (import) is
\* empty is a failure of that row alone: export settles its unit with the
\* missing-id error and no request; import never fails the run over it
C13_AbsentFieldIsRowLevel ==
    /\ cmd = "export" =>
          \A u \in DOMAIN unit :
              (unit[u].st = "settled" /\ ContentVersionId(rows[u]) = NoPath) =>
                  /\ unit[u].url = NoPath
                  /\ unit[u].reply = [kind |-> "failed", error |-> MissingId]
    /\ cmd = "import" =>
          ((pc = "Failed" /\ cbError # NoError /\ runError = cbError) =>
              cbError.file # NoPath)
\* the row of SpecName, its id and its hint as the manifest gives them
NamedId == rows[1][idFieldName]
NamedHint == rows[1].Ext
HasDot(h) == \E k \in DOMAIN h : h[k] = "."
\* e is what follows the last dot of h
FollowsLastDot(e, h) ==
    \E k \in DOMAIN h :
        /\ h[k] = "."
        /\ e = SubSeq(h, k + 1, Len(h))
        /\ ~HasDot(e)

\* C14 (amended): the destination is named id when no extension column is
\* configured or the hint is empty; id.h when h has no dot; and when h has a
\* dot, id.e for e the substring after the last dot of h, or id alone when
\* that substring is empty (h ends with a dot)
C14_DestinationName ==
    (cmd = "name" /\ pc = "Named") =>
        /\ (extColName = "" \/ NamedHint = <<>>) => outDir = {NamedId}
        /\ (extColName # "" /\ NamedHint # <<>> /\ ~HasDot(NamedHint)) =>
              outDir = {NamedId \o <<".">> \o NamedHint}
        /\ (extColName # "" /\ HasDot(NamedHint)) =>
              \E e \in Hints :
                  /\ FollowsLastDot(e, NamedHint)
                  /\ outDir = {IF e = <<>> THEN NamedId ELSE NamedId \o <<".">> \o e}

\* id '123' with the hint 'r.p' is saved as '123.p'
C14_Witness ==
    /\ cmd = "name"
    /\ pc = "Named"
    /\ idFieldName = "Id"
    /\ extColName = "Ext"
    /\ NamedHint = <<"r", ".", "p">>
    /\ outDir = {<<"1", "2", "3", ".", "p">>}

\* C14 (as claimed): whenever the hint has a dot the destination is named
\* id.e for e the substring after the last dot of h
C14_AsClaimed ==
    (cmd = "name" /\ pc = "Named" /\ extColName # "" /\ HasDot(NamedHint)) =>
        \E e \in Hints :
            /\ FollowsLastDot(e, NamedHint)
            /\ outDir = {NamedId \o <<".">> \o e}
\* this run is made over the directory a first run has left
RunAgain == cmd = "export" /\ previous # NoRun

\* C15: in a run made again over the output directory of a first run (same
\* flags, same manifest), every sink is opened over a file that exists and
\* replaces it: the directory keeps exactly the first run's file names, one
\* per row, and no failure is logged for a file being there already
C15_ExportAgainOverwrites ==
    RunAgain =>
        /\ outDir = previous.dir
        /\ Cardinality(outDir) = previous.rows
        /\ sinksOpened <= previous.rows
        /\ \A i \in DOMAIN errLog : errLog[i].details # "EEXIST: file already exists"
        /\ pc = "Done" => (failureCount = 0 => sinksOpened = previous.rows)

\* the second run has saved its three rows again, with extensions
C15_Witness ==
    /\ RunAgain
    /\ pc = "Done"
    /\ previous.rows = 3
    /\ extColName = "Ext"
    /\ sinksOpened = 3
    /\ result = [successCount |-> 3, failureCount |-> 0]
    /\ outDir = previous.dir

\* C16: when all n records together fit the byte ceiling, createBatches
\* returns ceil(n / MAX_SUBREQUESTS) batches, each of MAX_SUBREQUESTS records
\* but the last, which has the remainder
C16_FullBatchesThenRemainder ==
    (pc = "Resolved" /\ BatchBytes(rows) <= batchSizeBytes) =>
        LET n == Len(rows)
            k == (n + MAX_SUBREQUESTS - 1) \div MAX_SUBREQUESTS
        IN /\ Len(batches) = k
           /\ \A b \in 1..(k - 1) : Len(batches[b]) = MAX_SUBREQUESTS
           /\ k > 0 => Len(batches[k]) = n - MAX_SUBREQUESTS * (k - 1)

\* MAX_SUBREQUESTS + 2 records of one byte probed last to first: a full batch
\* and a batch of two
C16_Witness ==
    /\ pc = "Resolved"
    /\ order = "desc"
    /\ Len(rows) = MAX_SUBREQUESTS + 2
    /\ BatchBytes(rows) = Len(rows)
    /\ BatchLengths = <<MAX_SUBREQUESTS, 2>>

\* C17: a record bigger than the byte ceiling does not make createBatches
\* fail (it fails over missing binaries only) and is returned in a batch of
\* its own, wherever it stands in the manifest and whenever it is probed
C17_OversizedAlone ==
    /\ cbError # NoError =>
          \E i \in DOMAIN rows : ~disk[i].exists /\ cbError.file = rows[i].VersionData
    /\ pc = "Resolved" =>
          \A i \in DOMAIN rows :
              disk[i].size > batchSizeBytes =>
                  \E b \in DOMAIN batches : batches[b] = <<rows[i]>>

\* an oversized record in the middle of the manifest, between two batches
C17_Witness ==
    /\ pc = "Resolved"
    /\ Len(rows) >= 3
    /\ \E i \in DOMAIN rows, b \in DOMAIN batches :
          /\ 1 < i /\ i < Len(rows)
          /\ disk[i].size > batchSizeBytes
          /\ 1 < b /\ b < Len(batches)
          /\ batches[b] = <<rows[i]>>
          /\ Len(batches[1]) > 0

\* the units of export whose row failed
FailedRows == {u \in DOMAIN unit : unit[u].res = [ok |-> FALSE]}

\* C18: when an export run resolves, the two counts it returns add up to the
\* number of rows read, and the ledger holds as many entries as rows failed,
\* one for each failed row
C18_ExportCountsAddUp ==
    (cmd = "export" /\ pc = "Done") =>
        /\ result.successCount + result.failureCount = Len(rows)
        /\ Len(errLog) = result.failureCount
        /\ Cardinality(FailedRows) = result.failureCount
        /\ \A u \in FailedRows :
              \E i \in DOMAIN errLog : errLog[i].id = ContentVersionId(rows[u])
        /\ \A i, j \in DOMAIN errLog :
              (errLog[i].id = errLog[j].id /\ errLog[i].id # NoPath) => i = j

\* three rows read, two saved and one failed
C18_Witness ==
    /\ cmd = "export"
    /\ pc = "Done"
    /\ Len(rows) = 3
    /\ result = [successCount |-> 2, failureCount |-> 1]
    /\ Len(errLog) = 1

\* C19 (as claimed): once every unit has settled, import has issued one
\* upload request per batch, export one download request per row with an id,
\* and an export that saved all its n rows has opened n sinks
C19_EveryUnitAttemptedOnce ==
    (unit # <<>> /\ \A u \in DOMAIN unit : unit[u].st = "settled") =>
        /\ cmd = "import" => requests = Len(batches)
        /\ cmd = "export" =>
              /\ requests = Cardinality({u \in DOMAIN rows :
                                            ContentVersionId(rows[u]) # NoPath})
              /\ successCount = Len(rows) => sinksOpened = Len(rows)

\* C20: with --id naming the column CvId of a manifest that has an Id
\* column too, every fetch goes to the URL of the row's CvId and every file
\* is named after a CvId; none uses a value of the Id column
C20_CustomIdColumnOnly ==
    (cmd = "export" /\ idFieldName = "CvId") =>
        /\ \A u \in DOMAIN unit :
              /\ unit[u].url # NoPath =>
                    unit[u].url = <<"ContentVersion">> \o rows[u].CvId \o <<"VersionData">>
              /\ (unit[u].phase = "streaming" \/ unit[u].reply.kind = "saved") =>
                    \E name \in outDir : SubSeq(name, 1, 2) = rows[u].CvId
        /\ \A name \in outDir : name[1] = "V"

\* two rows fetched by their CvId and saved under it, one with an extension
C20_Witness ==
    /\ cmd = "export"
    /\ idFieldName = "CvId"
    /\ extColName = "Ext"
    /\ previous = NoRun
    /\ pc = "Done"
    /\ successCount >= 2
    /\ <<"V", "1", ".", "p">> \in outDir
    /\ \A u \in DOMAIN unit : unit[u].url[2] = "V"

\* a name holding no separator, and a column claiming the field F: named F
\* or named F followed by a separator
PlainName(s) == s # <<>> /\ \A k \in DOMAIN s : s[k] \notin {".", ":"}
ClaimsField(key, F) ==
    \/ key = F
    \/ Len(key) > Len(F) /\ SubSeq(key, 1, Len(F)) = F /\ key[Len(F) + 1] \in {".", ":"}
FixedFields == {<<"attributes">>, <<"Title">>, <<"PathOnClient">>}

UnitIds == 1..(MaxRows + MaxExportRows)
Started(u) == u \in DOMAIN unit /\ unit[u].st = "running"
Settled(u) == u \in DOMAIN unit /\ unit[u].st = "settled"

\* C22 (as claimed): every unit that has started eventually settles, even
\* when the remote end never answers its request
C22_StartedUnitsSettle ==
    \A u \in UnitIds : Started(u) ~> Settled(u)

\* C23 (as claimed): while the manifest is being read (and, for import,
\* while the batches are formed and until the run goes on to transfer) no
\* unit has started and no request has been issued; and a run that failed
\* in Reading or Batching has never started a unit
C23_PhasesOrdered ==
    /\ pc \in {"Idle", "Reading", "Batching", "Auth"} =>
          /\ \A u \in DOMAIN unit : unit[u].st = "queued"
          /\ requests = 0
    /\ (pc = "Failed" /\ (runError = ReadFailure \/ (cbError # NoError /\ runError = cbError))) =>
          \A u \in DOMAIN unit : unit[u].st = "queued"

\* C24: units are started in the order they were submitted: a unit that
\* has started has no unit submitted before it still waiting, and the
\* waiting units stand in the queue in submission order
C24_StartedInSubmissionOrder ==
    /\ \A u, v \in DOMAIN unit :
          (u < v /\ unit[v].st # "queued") => unit[u].st # "queued"
    /\ \A i, j \in DOMAIN queue : i < j => queue[i] < queue[j]
    /\ Range(queue) = {u \in DOMAIN unit : unit[u].st = "queued"}

\* one slot: the first unit has settled, the second runs, the third waits
C24_Witness ==
    /\ concurrency = 1
    /\ Len(unit) = 3
    /\ unit[1].st = "settled"
    /\ unit[2].st = "running"
    /\ unit[3].st = "queued"
    /\ queue = <<3>>

\* C25: when every started unit settles, every unit submitted to the
\* limiter is eventually started and runs to its end, whatever becomes of
\* the run meanwhile: whenever a submitted unit waits or runs, a moment
\* comes at which every submitted unit has settled. (A unit leaves the
\* limiter's books only when a run is made again, all units settled.)
SomeUnitOutstanding == \E u \in DOMAIN unit : unit[u].st \in {"queued", "running"}
C25_EverySubmittedUnitRuns == SomeUnitOutstanding ~> AllSettled

\* one slot and three units, the last of which waited for the two before
\* it and has settled
C25_Witness ==
    /\ concurrency = 1
    /\ Len(unit) = 3
    /\ \A u \in DOMAIN unit : unit[u].st = "settled"
    /\ kicks = 0
    /\ activeCount = 0

\* C26 (as claimed): when createBatches returns, the emitted batches put
\* end to end are the input records in manifest order, whatever the order
\* in which the probes completed
C26_BatchesInManifestOrder ==
    pc = "Resolved" => Flatten(batches) = rows

\* B was closed for a reason when B2 was opened after it: B was full, or
\* the first record of B2 did not fit beside the records of B
ClosedWhenNecessary(B, B2) ==
    \/ Len(B) = MAX_SUBREQUESTS
    \/ B2 # <<>> /\ BatchBytes(B) + disk[RowIndex(B2[1])].size > batchSizeBytes

\* C27: every emitted batch that has a successor (the next emitted batch,
\* or the batch being filled) was full or could not take the successor's
\* first record; and an emitted batch never changes: batches only grows at
\* its end
C27_ClosedOnlyWhenNecessary ==
    /\ [](/\ \A b \in DOMAIN batches :
                b + 1 \in DOMAIN batches => ClosedWhenNecessary(batches[b], batches[b + 1])
          /\ (pc = "Batching" /\ batches # <<>>) =>
                ClosedWhenNecessary(batches[Len(batches)], currentBatch))
    /\ [][\A b \in DOMAIN batches :
              b \in DOMAIN batches' /\ batches'[b] = batches[b]]_vars

\* three batches returned: one closed full of MAX_SUBREQUESTS records, one
\* closed because the oversized record after it did not fit
C27_Witness ==
    /\ pc = "Resolved"
    /\ Len(batches) = 3
    /\ Len(batches[1]) = MAX_SUBREQUESTS
    /\ Len(batches[2]) < MAX_SUBREQUESTS
    /\ Len(batches[2]) > 0
    /\ disk[RowIndex(batches[3][1])] = Oversized

\* C28 (as claimed): once every unit of an import run has settled,
\* totalProcessed is the number of manifest records, whatever the remote
\* end answered
C28_ProcessedOncePerRecord ==
    (cmd = "import" /\ unit # <<>> /\ AllSettled) => totalProcessed = Len(rows)

\* C29 (as claimed): no progress update is made before the progress bar
\* is started or after it is finished, and a run that failed on reading the
\* manifest or on forming the batches has finished its progress bar
C29_ProgressOrdered ==
    /\ ~progress.early
    /\ ~progress.late
    /\ (pc = "Failed" /\ (runError = ReadFailure \/ (cbError # NoError /\ runError = cbError))) =>
          progress.finished

\* the units that complete in the step at hand
Completes(u) == u \in DOMAIN unit /\ unit[u].st = "running" /\ unit[u].st' = "settled"

C31_FinalizedAfterAllSettled ==
    (ledgerWritten \/ result # NoResult) => AllSettled

\* the settled units of import whose reply was aligned with the batch or
\* whose request failed in transport, and the ledger entries such a unit
\* is due: one per failed result, or one per record
Regular(u) == Aligned(u) \/ unit[u].reply.kind = "error"
EntriesDue(u) ==
    IF unit[u].reply.kind = "error" THEN Len(batches[u])
    ELSE Cardinality({k \in DOMAIN unit[u].reply.data : ~unit[u].reply.data[k].success})
SettledUnits == {u \in DOMAIN unit : unit[u].st = "settled" /\ unit[u].out = "fulfilled"}

\* C32: with several batches in flight, the ledger entries of one batch
\* stand together in the ledger, none of another batch between them; and
\* no update is lost: when the settled batches were answered by aligned
\* replies or failed in transport, totalProcessed is the number of their
\* records and the ledger has every entry they are due
C32_MergeIsAtomic ==
    cmd = "import" =>
        /\ \A u \in SettledUnits :
              \A i, j, k \in DOMAIN errLog :
                  (/\ i < j /\ j < k
                   /\ \E a \in DOMAIN batches[u] : errLog[i].title = batches[u][a].Title
                   /\ \E a \in DOMAIN batches[u] : errLog[k].title = batches[u][a].Title) =>
                      \E a \in DOMAIN batches[u] : errLog[j].title = batches[u][a].Title
        /\ (\A u \in SettledUnits : Regular(u)) =>
              /\ totalProcessed = SumSeq([u \in DOMAIN unit |->
                                     IF u \in SettledUnits THEN Len(batches[u]) ELSE 0])
              /\ Len(errLog) = SumSeq([u \in DOMAIN unit |->
                                     IF u \in SettledUnits THEN EntriesDue(u) ELSE 0])

\* two batches in flight together under concurrency 2, the second answered
\* first, both failed: two entries and two records counted
C32_Witness ==
    /\ cmd = "import"
    /\ concurrency = 2
    /\ Len(unit) = 2
    /\ SettledUnits = {1, 2}
    /\ Len(batches[1]) = 1
    /\ Len(batches[2]) = 1
    /\ totalProcessed = 2
    /\ Len(errLog) = 2
    /\ errLog[1].title = batches[2][1].Title

\* the rows whose processRow failed holding a response stream or a writer
FailedHolding ==
    {u \in DOMAIN handles :
        /\ unit[u].st = "settled"
        /\ handles[u].cause # NoDetails
        /\ (handles[u].response # "none" \/ handles[u].writer # "none")}

\* C33: when processRow fails after a response stream or a writer has been
\* obtained (a fetch error with a response body, an error in mid-stream, a
\* write error of the sink), then by the time the failure is reported the
\* response stream is destroyed (or has destroyed itself by its error),
\* the writer, if any, is ended, and the error reported is the one that
\* made processRow fail
C33_CleanupOnFailure ==
    \A u \in FailedHolding :
        /\ handles[u].response \in {"none", "destroyed", "errored"}
        /\ handles[u].writer \in {"none", "ended"}
        /\ unit[u].reply = [kind |-> "failed", error |-> handles[u].cause]

\* the ledger entries of the row of unit u
RowEntries(u) == {k \in DOMAIN errLog : errLog[k].id = ContentVersionId(rows[u])}

\* C34: a row whose download failed at the fetch and a row that failed at
\* the stream or at the write of the sink have ledger entries that can be
\* told apart: the entry of a fetch failure carries the url of the request
\* and no error message in details, the entry of a stream or write failure
\* carries the message of the error in details and no HTTP status or url;
\* and each such row has exactly one entry
C34_FailuresClassified ==
    \A u \in DOMAIN handles :
        (unit[u].st = "settled" /\ handles[u].cause # NoDetails) =>
            /\ Cardinality(RowEntries(u)) = 1
            /\ \A k \in RowEntries(u) :
                IF handles[u].cause \in FetchErrors
                THEN /\ errLog[k].url # "unknown"
                     /\ errLog[k].details = "unknown"
                ELSE /\ errLog[k].details = handles[u].cause.message
                     /\ errLog[k].status = "unknown"
                     /\ errLog[k].url = "unknown"

\* C35: in the form of an upload request the i-th record of the collection
\* references, by binaryPartName, the i-th part attached, that part is the
\* file of the i-th row of the batch, there is one record and one part for
\* each row, and no two parts have the same name
C35_RequestAligned ==
    (cmd = "record" /\ pc = "Built" /\ result.form # NoForm) =>
        LET form == result.form IN
        /\ Len(form.collection) = Len(rows)
        /\ Len(form.parts) = Len(rows)
        /\ \A i \in DOMAIN rows :
              /\ form.collection[i][<<"attributes">>] =
                    FieldValue("attributes", <<"ContentVersion">>, NoPath,
                               form.parts[i].partName)
              /\ form.parts[i].versionData = rows[i].VersionData
        /\ \A i, j \in DOMAIN rows : i # j => form.parts[i].partName # form.parts[j].partName

\* C36: a run whose manifest has no data row does not fail (unless reading
\* the manifest or refreshing the session failed), issues no transfer
\* request, and when it is done all its counts are zero and no ledger was
\* written
C36_EmptyManifestConcludes ==
    (cmd \in {"import", "export"} /\ rows = <<>>) =>
        /\ pc = "Failed" => runError \in {ReadFailure, AuthFailure}
        /\ requests = 0
        /\ pc = "Done" =>
              /\ totalProcessed = 0 /\ successCount = 0 /\ failureCount = 0
              /\ errLog = <<>>
              /\ ~ledgerWritten

\* C37: every batch createBatches emits, and so every batch in its result,
\* holds at least one record
C37_NoEmptyBatch ==
    cmd = "batch" => \A b \in DOMAIN batches : Len(batches[b]) >= 1

\* the download units that hold an open writer
Writing(u) == Running(u, "streaming")

\* C38: no two download units of a run that are in flight at the same time
\* write to the same destination path
C38_DestinationsExclusive ==
    \A u, v \in DOMAIN unit :
        (u # v /\ Writing(u) /\ Writing(v)) => FileName(rows[u]) # FileName(rows[v])

\* C39: once the manifest has been read to its end and every unit has
\* settled, the run eventually resolves or rejects
C39_RunTerminates ==
    (pc \in {"Settling", "Transferring", "Writing"} /\ AllSettled) ~> (pc \in {"Done", "Failed"})

====
